---- MODULE Spec2Model ----
(***************************************************************************)
(* A model of the ThreadPool class of src/ThreadPool.h: the constructor    *)
(* that spawns the workers, the worker loop, enqueue, and the destructor,  *)
(* each cut into the steps at which other threads can interleave.          *)
(*                                                                         *)
(* Threads: the thread that constructs and later destroys the pool, the    *)
(* workers 1..threads, and the submitters (threads that call enqueue).     *)
(* A task is named by the position at which enqueue put it in the queue    *)
(* (1 for the first emplace, 2 for the second, ...).  What a task's        *)
(* callable does is its kind: it returns a value ("ret"), throws ("throw") *)
(* or never finishes ("loop").                                             *)
(***************************************************************************)
EXTENDS Naturals, Sequences, FiniteSets

\* The worker counts handed to the constructor.
ThreadCounts == {0, 1, 2}

\* Total number of calls of enqueue over all submitters.
MaxCalls == 2

\* Total number of spurious wake-ups of condition.wait.
MaxSpurious == 1

\* The threads that call enqueue.
Submitters == {"s1", "s2"}

\* What a submitted callable may do.
Kinds == {"ret", "throw", "loop"}

VARIABLES
    threads,     \* the constructor's argument
    cpc,         \* constructor: "spawn" | "done" | "failed" | "terminate"
    spawned,     \* workers.size()
    aborted,     \* std::terminate was called: the process is gone
    wpc,         \* worker -> position in the worker loop
    wtask,       \* worker -> the task it holds in its local `task` (0: none)
    tasks,       \* the queue `tasks`
    mutex,       \* the holder of queue_mutex
    waiters,     \* the workers blocked in condition.wait
    stop,        \* the flag `stop`
    spc,         \* submitter -> position in enqueue
    sid,         \* submitter -> the task its current call put in the queue (0: none)
    swhen,       \* submitter -> when its call began: "open" (the destructor not yet
                 \* entered), "entered" (entered, `stop` not yet set) or "stopped";
                 \* "-" once the call has put its task in the queue
    calls,       \* number of calls of enqueue begun
    kind,        \* task -> kind of its callable
    handle,      \* task -> state of its future: "pending" | "value" | "failure",
                 \* or "broken" (std::future_error, broken_promise)
    runs,        \* task -> how often its callable was invoked
    returned,    \* the tasks whose call of enqueue has returned the future
    rejected,    \* number of calls of enqueue that threw
    popOrder,    \* tasks in the order the workers popped them
    dpc,         \* destructor: "idle" | "lock" | "set" | "unlock" | "notify" | "join" | "returned"
    joined,      \* number of workers the destructor has joined
    spurious,    \* number of spurious wake-ups so far
    got          \* task -> what the holder of its future has of it: "none",
                 \* "blocked" (inside future::get()), or what get() gave

vars == <<threads, cpc, spawned, aborted, wpc, wtask, tasks, mutex, waiters, stop,
          spc, sid, swhen, calls, kind, handle,
          runs, returned, rejected, popOrder, dpc, joined, spurious, got>>

ctorVars == <<threads, cpc, spawned, aborted>>
workerVars == <<wpc, wtask>>
submitVars == <<spc, sid, swhen, calls, returned, rejected>>
taskVars == <<kind, handle, runs>>
dtorVars == <<dpc, joined>>

\* The workers of the largest pool.
Workers == 1..(CHOOSE n \in ThreadCounts : \A m \in ThreadCounts : m <= n)

\* Thread names, as the holder of the mutex.
Free == [k |-> "free", i |-> "-"]
W(w) == [k |-> "worker", i |-> w]
S(s) == [k |-> "submitter", i |-> s]
D == [k |-> "destructor", i |-> "-"]

\* The tasks put in the queue so far.
Tasks == 1..Len(kind)

\* std::unique_lock's constructor returns once no other thread holds the mutex.
CanLock == mutex = Free

\* The predicate of condition.wait.
WaitPred == stop \/ tasks # << >>

\* ExitCond with the test of the queue left out: if(stop) return.
ExitCondStopOnly == stop

\* The exit test of the worker loop.
ExitCond == stop /\ tasks = << >>

\* Where the pool's shutdown stands, as a call of enqueue finds it.
When == IF stop THEN "stopped" ELSE IF dpc # "idle" THEN "entered" ELSE "open"

Init ==
    /\ threads \in ThreadCounts
    /\ cpc = "spawn"
    /\ spawned = 0
    /\ aborted = FALSE
    /\ wpc = [w \in Workers |-> "none"]
    /\ wtask = [w \in Workers |-> 0]
    /\ tasks = << >>
    /\ mutex = Free
    /\ waiters = {}
    /\ stop = FALSE
    /\ spc = [s \in Submitters |-> "idle"]
    /\ sid = [s \in Submitters |-> 0]
    /\ swhen = [s \in Submitters |-> "-"]
    /\ calls = 0
    /\ kind = << >>
    /\ handle = << >>
    /\ runs = << >>
    /\ returned = {}
    /\ rejected = 0
    /\ popOrder = << >>
    /\ dpc = "idle"
    /\ joined = 0
    /\ spurious = 0
    /\ got = [t \in 1..MaxCalls |-> "none"]

----------------------------------------------------------------------------
\* The constructor.

\* CtorSpawn with the loop running once too often (i <= threads).
CtorSpawnExtra ==
    /\ ~aborted
    /\ cpc = "spawn"
    /\ spawned <= threads
    /\ spawned' = spawned + 1
    /\ wpc' = [w \in Workers |-> IF w = spawned + 1 THEN "lock" ELSE wpc[w]]
    /\ UNCHANGED <<got, threads, cpc, aborted, wtask, tasks, mutex, waiters, stop,
                   submitVars, taskVars, popOrder, dtorVars, spurious>>

\* One iteration of the loop: workers.emplace_back starts a thread.
CtorSpawn ==
    /\ ~aborted
    /\ cpc = "spawn"
    /\ spawned < threads
    /\ spawned' = spawned + 1
    /\ wpc' = [wpc EXCEPT ![spawned + 1] = "lock"]
    /\ UNCHANGED <<got, threads, cpc, aborted, wtask, tasks, mutex, waiters, stop,
                   submitVars, taskVars, popOrder, dtorVars, spurious>>

\* std::thread's constructor throws std::system_error.  The exception leaves
\* the constructor, so ~ThreadPool does not run: the members are destroyed,
\* and ~vector destroys the threads spawned so far, which are joinable:
\* std::terminate.  With no thread spawned yet the exception reaches the caller.
CtorSpawnFails ==
    /\ ~aborted
    /\ cpc = "spawn"
    /\ spawned < threads
    /\ cpc' = IF spawned = 0 THEN "failed" ELSE "terminate"
    /\ aborted' = (spawned # 0)
    /\ UNCHANGED <<got, threads, spawned, workerVars, tasks, mutex, waiters, stop,
                   submitVars, taskVars, popOrder, dtorVars, spurious>>

\* The loop ends (i = threads): the constructor returns a pool, whatever
\* `threads` is.
CtorReturn ==
    /\ ~aborted
    /\ cpc = "spawn"
    /\ spawned = threads
    /\ cpc' = "done"
    /\ UNCHANGED <<got, threads, spawned, aborted, workerVars, tasks, mutex, waiters, stop,
                   submitVars, taskVars, popOrder, dtorVars, spurious>>

----------------------------------------------------------------------------
\* The worker loop.

\* WorkerLock with the worker entering its critical section without waiting
\* for the mutex.
WorkerLockNoMutex(w) ==
    /\ ~aborted
    /\ wpc[w] \in {"lock", "woken"}
    /\ mutex' = W(w)
    /\ wpc' = [wpc EXCEPT ![w] = "wait"]
    /\ UNCHANGED <<got, ctorVars, wtask, tasks, waiters, stop,
                   submitVars, taskVars, popOrder, dtorVars, spurious>>

\* std::unique_lock<std::mutex> lock(this->queue_mutex), also when
\* condition.wait takes the mutex again after a wake-up.
WorkerLock(w) ==
    /\ ~aborted
    /\ wpc[w] \in {"lock", "woken"}
    /\ CanLock
    /\ mutex' = W(w)
    /\ wpc' = [wpc EXCEPT ![w] = "wait"]
    /\ UNCHANGED <<got, ctorVars, wtask, tasks, waiters, stop,
                   submitVars, taskVars, popOrder, dtorVars, spurious>>

\* WorkerWait with the queue used as a stack: the worker takes tasks.back().
WorkerWaitLifo(w) ==
    /\ ~aborted
    /\ wpc[w] = "wait"
    /\ IF ~WaitPred
       THEN /\ wpc' = [wpc EXCEPT ![w] = "blocked"]
            /\ mutex' = Free
            /\ waiters' = waiters \cup {w}
            /\ UNCHANGED <<wtask, tasks, popOrder>>
       ELSE IF ExitCond
       THEN /\ wpc' = [wpc EXCEPT ![w] = "done"]
            /\ mutex' = Free
            /\ UNCHANGED <<wtask, tasks, popOrder, waiters>>
       ELSE /\ wtask' = [wtask EXCEPT ![w] = tasks[Len(tasks)]]
            /\ tasks' = SubSeq(tasks, 1, Len(tasks) - 1)
            /\ popOrder' = Append(popOrder, tasks[Len(tasks)])
            /\ wpc' = [wpc EXCEPT ![w] = "unlock"]
            /\ UNCHANGED <<mutex, waiters>>
    /\ UNCHANGED <<got, ctorVars, stop, submitVars, taskVars, dtorVars, spurious>>

\* condition.wait(lock, pred) with the predicate false: the worker releases
\* the mutex and blocks.  With the predicate true wait returns, and then
\* if(stop && tasks.empty()) return, which releases the mutex (the lock goes
\* out of scope); else task = move(tasks.front()); tasks.pop().
WorkerWait(w) ==
    /\ ~aborted
    /\ wpc[w] = "wait"
    /\ IF ~WaitPred
       THEN /\ wpc' = [wpc EXCEPT ![w] = "blocked"]
            /\ mutex' = Free
            /\ waiters' = waiters \cup {w}
            /\ UNCHANGED <<wtask, tasks, popOrder>>
       ELSE IF ExitCond
       THEN /\ wpc' = [wpc EXCEPT ![w] = "done"]
            /\ mutex' = Free
            /\ UNCHANGED <<wtask, tasks, popOrder, waiters>>
       ELSE /\ wtask' = [wtask EXCEPT ![w] = Head(tasks)]
            /\ tasks' = Tail(tasks)
            /\ popOrder' = Append(popOrder, Head(tasks))
            /\ wpc' = [wpc EXCEPT ![w] = "unlock"]
            /\ UNCHANGED <<mutex, waiters>>
    /\ UNCHANGED <<got, ctorVars, stop, submitVars, taskVars, dtorVars, spurious>>

\* A blocked worker wakes up though nobody notified it.
WorkerSpurious(w) ==
    /\ ~aborted
    /\ wpc[w] = "blocked"
    /\ w \in waiters
    /\ spurious < MaxSpurious
    /\ spurious' = spurious + 1
    /\ waiters' = waiters \ {w}
    /\ wpc' = [wpc EXCEPT ![w] = "woken"]
    /\ UNCHANGED <<got, ctorVars, wtask, tasks, mutex, stop,
                   submitVars, taskVars, popOrder, dtorVars>>

\* WorkerUnlock with the critical section not closed before task(): the
\* worker goes on to invoke the task with the mutex still held.
WorkerUnlockKeeps(w) ==
    /\ ~aborted
    /\ wpc[w] = "unlock"
    /\ wpc' = [wpc EXCEPT ![w] = "call"]
    /\ UNCHANGED <<got, ctorVars, wtask, tasks, mutex, waiters, stop,
                   submitVars, taskVars, popOrder, dtorVars, spurious>>

\* The end of the critical section.
WorkerUnlock(w) ==
    /\ ~aborted
    /\ wpc[w] = "unlock"
    /\ mutex' = Free
    /\ wpc' = [wpc EXCEPT ![w] = "call"]
    /\ UNCHANGED <<got, ctorVars, wtask, tasks, waiters, stop,
                   submitVars, taskVars, popOrder, dtorVars, spurious>>

\* WorkerCall with the invocation guarded by the queue mutex: the worker
\* takes the mutex again and holds it while the task runs.
WorkerCallLocked(w) ==
    /\ ~aborted
    /\ wpc[w] = "call"
    /\ CanLock
    /\ mutex' = W(w)
    /\ runs' = [runs EXCEPT ![wtask[w]] = @ + 1]
    /\ wpc' = [wpc EXCEPT ![w] = "running"]
    /\ UNCHANGED <<got, ctorVars, wtask, tasks, waiters, stop,
                   submitVars, kind, handle, popOrder, dtorVars, spurious>>

\* task(): the invocation begins.
WorkerCall(w) ==
    /\ ~aborted
    /\ wpc[w] = "call"
    /\ runs' = [runs EXCEPT ![wtask[w]] = @ + 1]
    /\ wpc' = [wpc EXCEPT ![w] = "running"]
    /\ UNCHANGED <<got, ctorVars, wtask, tasks, mutex, waiters, stop,
                   submitVars, kind, handle, popOrder, dtorVars, spurious>>

\* What std::packaged_task::operator() stores in the shared state: the value
\* the callable returns, or the exception it throws.
Outcome(k) == IF k = "throw" THEN "failure" ELSE "value"

\* WorkerFinish with the callable queued bare, not wrapped in a
\* packaged_task: what it throws leaves the worker's thread function, which
\* is std::terminate.
WorkerFinishUncaught(w) ==
    /\ ~aborted
    /\ wpc[w] = "running"
    /\ kind[wtask[w]] # "loop"
    /\ IF kind[wtask[w]] = "ret"
       THEN /\ handle' = [handle EXCEPT ![wtask[w]] = "value"]
            /\ wpc' = [wpc EXCEPT ![w] = "lock"]
            /\ wtask' = [wtask EXCEPT ![w] = 0]
            /\ UNCHANGED aborted
       ELSE /\ aborted' = TRUE
            /\ UNCHANGED <<handle, wpc, wtask>>
    /\ UNCHANGED <<got, threads, cpc, spawned, tasks, mutex, waiters, stop,
                   submitVars, kind, runs, popOrder, dtorVars, spurious>>

\* WorkerFinish with one result slot shared by all tasks (the slot of the
\* first task), written whatever it holds.
WorkerFinishAliased(w) ==
    /\ ~aborted
    /\ wpc[w] = "running"
    /\ kind[wtask[w]] # "loop"
    /\ handle' = [handle EXCEPT ![1] = Outcome(kind[wtask[w]])]
    /\ wpc' = [wpc EXCEPT ![w] = "lock"]
    /\ wtask' = [wtask EXCEPT ![w] = 0]
    /\ UNCHANGED <<got, ctorVars, tasks, mutex, waiters, stop,
                   submitVars, kind, runs, popOrder, dtorVars, spurious>>

\* task() ends: the packaged_task has run the callable and made the future
\* ready; nothing is thrown into the worker, which loops.  A second
\* invocation of a packaged_task throws std::future_error, which nothing
\* catches: std::terminate.  A callable that never finishes never gets here.
WorkerFinish(w) ==
    /\ ~aborted
    /\ wpc[w] = "running"
    /\ kind[wtask[w]] # "loop"
    /\ IF handle[wtask[w]] = "pending"
       THEN /\ handle' = [handle EXCEPT ![wtask[w]] = Outcome(kind[wtask[w]])]
            /\ wpc' = [wpc EXCEPT ![w] = "lock"]
            /\ wtask' = [wtask EXCEPT ![w] = 0]
            /\ UNCHANGED aborted
       ELSE /\ aborted' = TRUE
            /\ UNCHANGED <<handle, wpc, wtask>>
    /\ UNCHANGED <<got, threads, cpc, spawned, tasks, mutex, waiters, stop,
                   submitVars, kind, runs, popOrder, dtorVars, spurious>>

----------------------------------------------------------------------------
\* The condition variable.

\* condition.notify_one() wakes waiter w (when there is a waiter at all).
Woken(w) == [wpc EXCEPT ![w] = "woken"]

\* condition.notify_all() wakes every waiter.
WokenAll == [w \in Workers |-> IF w \in waiters THEN "woken" ELSE wpc[w]]

----------------------------------------------------------------------------
\* enqueue.

\* The call begins: make_shared<packaged_task>(bind(f, args...)) and
\* task->get_future().
EnqueueCall(s) ==
    /\ ~aborted
    /\ cpc = "done"
    /\ dpc # "returned"
    /\ spc[s] = "idle"
    /\ calls < MaxCalls
    /\ calls' = calls + 1
    /\ spc' = [spc EXCEPT ![s] = "lock"]
    /\ swhen' = [swhen EXCEPT ![s] = When]
    /\ UNCHANGED <<got, ctorVars, workerVars, tasks, mutex, waiters, stop,
                   sid, returned, rejected, taskVars, popOrder, dtorVars, spurious>>

\* std::unique_lock<std::mutex> lock(queue_mutex).
EnqueueLock(s) ==
    /\ ~aborted
    /\ spc[s] = "lock"
    /\ CanLock
    /\ mutex' = S(s)
    /\ spc' = [spc EXCEPT ![s] = "check"]
    /\ UNCHANGED <<got, ctorVars, workerVars, tasks, waiters, stop,
                   sid, swhen, calls, returned, rejected, taskVars, popOrder,
                   dtorVars, spurious>>

\* EnqueueEmplace without the test of `stop`.
EnqueueEmplaceNoCheck(s, k) ==
    /\ ~aborted
    /\ spc[s] = "check"
    /\ tasks' = Append(tasks, Len(kind) + 1)
    /\ kind' = Append(kind, k)
    /\ handle' = Append(handle, "pending")
    /\ runs' = Append(runs, 0)
    /\ sid' = [sid EXCEPT ![s] = Len(kind) + 1]
    /\ spc' = [spc EXCEPT ![s] = "unlock"]
    /\ swhen' = [swhen EXCEPT ![s] = "-"]
    /\ UNCHANGED <<got, ctorVars, workerVars, mutex, waiters, stop,
                   calls, returned, rejected, popOrder, dtorVars, spurious>>

\* EnqueueEmplace with the task put at the head of the queue.
EnqueueEmplaceFront(s, k) ==
    /\ ~aborted
    /\ spc[s] = "check"
    /\ IF stop
       THEN /\ spc' = [spc EXCEPT ![s] = "idle"]
            /\ rejected' = rejected + 1
            /\ mutex' = Free
            /\ UNCHANGED <<tasks, sid, swhen, kind, handle, runs>>
       ELSE /\ tasks' = <<Len(kind) + 1>> \o tasks
            /\ kind' = Append(kind, k)
            /\ handle' = Append(handle, "pending")
            /\ runs' = Append(runs, 0)
            /\ sid' = [sid EXCEPT ![s] = Len(kind) + 1]
            /\ spc' = [spc EXCEPT ![s] = "unlock"]
            /\ swhen' = [swhen EXCEPT ![s] = "-"]
            /\ UNCHANGED <<mutex, rejected>>
    /\ UNCHANGED <<got, ctorVars, workerVars, waiters, stop,
                   calls, returned, popOrder, dtorVars, spurious>>

\* if(stop) throw std::runtime_error(...), which releases the mutex and
\* destroys the packaged_task and its future; else tasks.emplace(...).
\* k is what the callable handed to this call does when it is invoked.
EnqueueEmplace(s, k) ==
    /\ ~aborted
    /\ spc[s] = "check"
    /\ IF stop
       THEN /\ spc' = [spc EXCEPT ![s] = "idle"]
            /\ rejected' = rejected + 1
            /\ mutex' = Free
            /\ UNCHANGED <<tasks, sid, swhen, kind, handle, runs>>
       ELSE /\ tasks' = Append(tasks, Len(kind) + 1)
            /\ kind' = Append(kind, k)
            /\ handle' = Append(handle, "pending")
            /\ runs' = Append(runs, 0)
            /\ sid' = [sid EXCEPT ![s] = Len(kind) + 1]
            /\ spc' = [spc EXCEPT ![s] = "unlock"]
            /\ swhen' = [swhen EXCEPT ![s] = "-"]
            /\ UNCHANGED <<mutex, rejected>>
    /\ UNCHANGED <<got, ctorVars, workerVars, waiters, stop,
                   calls, returned, popOrder, dtorVars, spurious>>

\* The end of the critical section.
EnqueueUnlock(s) ==
    /\ ~aborted
    /\ spc[s] = "unlock"
    /\ mutex' = Free
    /\ spc' = [spc EXCEPT ![s] = "notify"]
    /\ UNCHANGED <<got, ctorVars, workerVars, tasks, waiters, stop,
                   sid, swhen, calls, returned, rejected, taskVars, popOrder,
                   dtorVars, spurious>>

\* EnqueueNotify with the notification left out.
EnqueueNotifyNone(s) ==
    /\ ~aborted
    /\ spc[s] = "notify"
    /\ spc' = [spc EXCEPT ![s] = "return"]
    /\ UNCHANGED <<got, ctorVars, workerVars, tasks, mutex, waiters, stop,
                   sid, swhen, calls, returned, rejected, taskVars, popOrder,
                   dtorVars, spurious>>

\* condition.notify_one().
EnqueueNotify(s) ==
    /\ ~aborted
    /\ spc[s] = "notify"
    /\ IF waiters = {}
       THEN UNCHANGED <<wpc, waiters>>
       ELSE \E w \in waiters :
                /\ wpc' = Woken(w)
                /\ waiters' = waiters \ {w}
    /\ spc' = [spc EXCEPT ![s] = "return"]
    /\ UNCHANGED <<got, ctorVars, wtask, tasks, mutex, stop,
                   sid, swhen, calls, returned, rejected, taskVars, popOrder,
                   dtorVars, spurious>>

\* return res.
EnqueueReturn(s) ==
    /\ ~aborted
    /\ spc[s] = "return"
    /\ spc' = [spc EXCEPT ![s] = "idle"]
    /\ returned' = returned \cup {sid[s]}
    /\ sid' = [sid EXCEPT ![s] = 0]
    /\ UNCHANGED <<got, ctorVars, workerVars, tasks, mutex, waiters, stop,
                   swhen, calls, rejected, taskVars, popOrder, dtorVars, spurious>>

----------------------------------------------------------------------------
\* The destructor.

\* The owner of a constructed pool destroys it.
DtorEnter ==
    /\ ~aborted
    /\ cpc = "done"
    /\ dpc = "idle"
    /\ dpc' = "lock"
    /\ UNCHANGED <<got, ctorVars, workerVars, tasks, mutex, waiters, stop,
                   submitVars, taskVars, popOrder, joined, spurious>>

\* DtorLock with the destructor entering its critical section without
\* waiting for the mutex.
DtorLockNoMutex ==
    /\ ~aborted
    /\ dpc = "lock"
    /\ mutex' = D
    /\ dpc' = "set"
    /\ UNCHANGED <<got, ctorVars, workerVars, tasks, waiters, stop,
                   submitVars, taskVars, popOrder, joined, spurious>>

\* std::unique_lock<std::mutex> lock(queue_mutex).
DtorLock ==
    /\ ~aborted
    /\ dpc = "lock"
    /\ CanLock
    /\ mutex' = D
    /\ dpc' = "set"
    /\ UNCHANGED <<got, ctorVars, workerVars, tasks, waiters, stop,
                   submitVars, taskVars, popOrder, joined, spurious>>

\* DtorStop with the backlog dropped: the tasks still in the queue are
\* discarded when the flag is raised.
DtorStopDiscards ==
    /\ ~aborted
    /\ dpc = "set"
    /\ stop' = TRUE
    /\ tasks' = << >>
    /\ dpc' = "unlock"
    /\ UNCHANGED <<got, ctorVars, workerVars, mutex, waiters,
                   submitVars, taskVars, popOrder, joined, spurious>>

\* stop = true.
DtorStop ==
    /\ ~aborted
    /\ dpc = "set"
    /\ stop' = TRUE
    /\ dpc' = "unlock"
    /\ UNCHANGED <<got, ctorVars, workerVars, tasks, mutex, waiters,
                   submitVars, taskVars, popOrder, joined, spurious>>

\* The end of the critical section.
DtorUnlock ==
    /\ ~aborted
    /\ dpc = "unlock"
    /\ mutex' = Free
    /\ dpc' = "notify"
    /\ UNCHANGED <<got, ctorVars, workerVars, tasks, waiters, stop,
                   submitVars, taskVars, popOrder, joined, spurious>>

\* DtorNotifyAll with notify_one in the place of notify_all.
DtorNotifyOne ==
    /\ ~aborted
    /\ dpc = "notify"
    /\ IF waiters = {}
       THEN UNCHANGED <<wpc, waiters>>
       ELSE \E w \in waiters :
                /\ wpc' = Woken(w)
                /\ waiters' = waiters \ {w}
    /\ dpc' = "join"
    /\ UNCHANGED <<got, ctorVars, wtask, tasks, mutex, stop,
                   submitVars, taskVars, popOrder, joined, spurious>>

\* condition.notify_all().
DtorNotifyAll ==
    /\ ~aborted
    /\ dpc = "notify"
    /\ wpc' = WokenAll
    /\ waiters' = {}
    /\ dpc' = "join"
    /\ UNCHANGED <<got, ctorVars, wtask, tasks, mutex, stop,
                   submitVars, taskVars, popOrder, joined, spurious>>

\* worker.join() of the next worker of `workers` returns once it has exited.
DtorJoin ==
    /\ ~aborted
    /\ dpc = "join"
    /\ joined < spawned
    /\ wpc[joined + 1] = "done"
    /\ joined' = joined + 1
    /\ UNCHANGED <<got, ctorVars, workerVars, tasks, mutex, waiters, stop,
                   submitVars, taskVars, popOrder, dpc, spurious>>

\* What ~packaged_task leaves in the shared state of a task that was never
\* invoked: std::future_error (broken_promise), and the future is ready.
Abandoned == [t \in Tasks |->
                 IF \E i \in 1..Len(tasks) : tasks[i] = t THEN "broken" ELSE handle[t]]

\* DtorReturn with the flag reset once the workers are joined.
DtorReturnClears ==
    /\ ~aborted
    /\ dpc = "join"
    /\ joined = spawned
    /\ dpc' = "returned"
    /\ stop' = FALSE
    /\ handle' = Abandoned
    /\ tasks' = << >>
    /\ UNCHANGED <<got, ctorVars, workerVars, mutex, waiters,
                   submitVars, kind, runs, popOrder, joined, spurious>>

\* The loop over `workers` ends and the destructor's body returns; then the
\* members are destroyed, and with `tasks` the packaged_tasks still in it.
DtorReturn ==
    /\ ~aborted
    /\ dpc = "join"
    /\ joined = spawned
    /\ dpc' = "returned"
    /\ handle' = Abandoned
    /\ tasks' = << >>
    /\ UNCHANGED <<got, ctorVars, workerVars, mutex, waiters, stop,
                   submitVars, kind, runs, popOrder, joined, spurious>>

----------------------------------------------------------------------------
\* The specification: every interleaving of the threads' steps, up to the
\* moment std::terminate ends the process.

Next ==
    \/ CtorSpawn
    \/ CtorSpawnFails
    \/ CtorReturn
    \/ \E w \in Workers : WorkerLock(w)
    \/ \E w \in Workers : WorkerWait(w)
    \/ \E w \in Workers : WorkerSpurious(w)
    \/ \E w \in Workers : WorkerUnlock(w)
    \/ \E w \in Workers : WorkerCall(w)
    \/ \E w \in Workers : WorkerFinish(w)
    \/ \E s \in Submitters : EnqueueCall(s)
    \/ \E s \in Submitters : EnqueueLock(s)
    \/ \E s \in Submitters : \E k \in Kinds : EnqueueEmplace(s, k)
    \/ \E s \in Submitters : EnqueueUnlock(s)
    \/ \E s \in Submitters : EnqueueNotify(s)
    \/ \E s \in Submitters : EnqueueReturn(s)
    \/ DtorEnter
    \/ DtorLock
    \/ DtorStop
    \/ DtorUnlock
    \/ DtorNotifyAll
    \/ DtorJoin
    \/ DtorReturn

Spec == Init /\ [][Next]_vars

\* The callables that terminate.
TermKinds == Kinds \ {"loop"}

\* The steps of a pool whose tasks all terminate.
NextTerm ==
    \/ CtorSpawn
    \/ CtorSpawnFails
    \/ CtorReturn
    \/ \E w \in Workers : WorkerLock(w)
    \/ \E w \in Workers : WorkerWait(w)
    \/ \E w \in Workers : WorkerSpurious(w)
    \/ \E w \in Workers : WorkerUnlock(w)
    \/ \E w \in Workers : WorkerCall(w)
    \/ \E w \in Workers : WorkerFinish(w)
    \/ \E s \in Submitters : EnqueueCall(s)
    \/ \E s \in Submitters : EnqueueLock(s)
    \/ \E s \in Submitters : \E k \in TermKinds : EnqueueEmplace(s, k)
    \/ \E s \in Submitters : EnqueueUnlock(s)
    \/ \E s \in Submitters : EnqueueNotify(s)
    \/ \E s \in Submitters : EnqueueReturn(s)
    \/ DtorEnter
    \/ DtorLock
    \/ DtorStop
    \/ DtorUnlock
    \/ DtorNotifyAll
    \/ DtorJoin
    \/ DtorReturn

\* The next step of worker w, of a call of enqueue in progress, of the
\* destructor once entered.
WorkerStep(w) ==
    \/ WorkerLock(w)
    \/ WorkerWait(w)
    \/ WorkerUnlock(w)
    \/ WorkerCall(w)
    \/ WorkerFinish(w)

EnqueueStep(s) ==
    \/ EnqueueLock(s)
    \/ \E k \in Kinds : EnqueueEmplace(s, k)
    \/ EnqueueUnlock(s)
    \/ EnqueueNotify(s)
    \/ EnqueueReturn(s)

DtorStep ==
    \/ DtorLock
    \/ DtorStop
    \/ DtorUnlock
    \/ DtorNotifyAll
    \/ DtorJoin
    \/ DtorReturn

\* A step of a thread that is running code of the pool: the constructor,
\* a worker, a call of enqueue in progress, the destructor once entered.
Progress ==
    \/ CtorSpawn
    \/ CtorReturn
    \/ \E w \in Workers : WorkerStep(w)
    \/ \E s \in Submitters : EnqueueStep(s)
    \/ DtorStep

\* While some thread can take a step, the operating system eventually runs
\* one that can.  Nothing obliges a spurious wake-up, a failing spawn, a
\* call of enqueue or the destruction to happen.
FairSpec ==
    /\ Init
    /\ [][NextTerm]_vars
    /\ WF_vars(Progress)

----------------------------------------------------------------------------
\* The holders of the futures.

\* The holder of the future that enqueue returned for task t calls get().
AwaitCall(t) ==
    /\ ~aborted
    /\ t \in returned
    /\ got[t] = "none"
    /\ got' = [got EXCEPT ![t] = "blocked"]
    /\ UNCHANGED <<ctorVars, workerVars, tasks, mutex, waiters, stop,
                   submitVars, taskVars, popOrder, dtorVars, spurious>>

\* get() blocks until the shared state is ready, and then returns the value
\* or throws the exception stored in it.
AwaitReturn(t) ==
    /\ ~aborted
    /\ got[t] = "blocked"
    /\ handle[t] # "pending"
    /\ got' = [got EXCEPT ![t] = handle[t]]
    /\ UNCHANGED <<ctorVars, workerVars, tasks, mutex, waiters, stop,
                   submitVars, taskVars, popOrder, dtorVars, spurious>>

\* The pool with the threads that wait for the results.
NextAwait ==
    \/ CtorSpawn
    \/ CtorSpawnFails
    \/ CtorReturn
    \/ \E w \in Workers : WorkerLock(w)
    \/ \E w \in Workers : WorkerWait(w)
    \/ \E w \in Workers : WorkerSpurious(w)
    \/ \E w \in Workers : WorkerUnlock(w)
    \/ \E w \in Workers : WorkerCall(w)
    \/ \E w \in Workers : WorkerFinish(w)
    \/ \E s \in Submitters : EnqueueCall(s)
    \/ \E s \in Submitters : EnqueueLock(s)
    \/ \E s \in Submitters : \E k \in Kinds : EnqueueEmplace(s, k)
    \/ \E s \in Submitters : EnqueueUnlock(s)
    \/ \E s \in Submitters : EnqueueNotify(s)
    \/ \E s \in Submitters : EnqueueReturn(s)
    \/ DtorEnter
    \/ DtorLock
    \/ DtorStop
    \/ DtorUnlock
    \/ DtorNotifyAll
    \/ DtorJoin
    \/ DtorReturn
    \/ \E t \in 1..MaxCalls : AwaitCall(t)
    \/ \E t \in 1..MaxCalls : AwaitReturn(t)

\* A thread inside get() whose future is ready is eventually run.
AwaitSpec ==
    /\ Init
    /\ [][NextAwait]_vars
    /\ WF_vars(Progress)
    /\ \A t \in 1..MaxCalls : WF_vars(AwaitReturn(t))

----------------------------------------------------------------------------
\* The properties.

\* C1: when the destructor returns, the queue is empty and every task whose
\* call of enqueue returned has been executed once and has left "pending".
C1_DrainOnShutdown ==
    dpc = "returned" =>
        /\ tasks = << >>
        /\ \A t \in returned : runs[t] = 1 /\ handle[t] # "pending"

\* A step of submitter s in a call that began at one of the moments in Ws.
StepOfCallBegun(s, Ws) ==
    /\ spc'[s] # spc[s]
    /\ IF spc[s] = "idle" THEN swhen'[s] \in Ws ELSE swhen[s] \in Ws

\* Such a step does not touch the queue and does not get past the test of
\* `stop`, where it throws.
Rejects(s) ==
    /\ tasks' = tasks
    /\ sid'[s] = 0
    /\ spc'[s] \in {"lock", "check", "idle"}
    /\ (spc[s] = "check") => (spc'[s] = "idle" /\ rejected' = rejected + 1)

C3_ExactlyOnce ==
    /\ \A t \in Tasks : runs[t] <= 1
    /\ \A v, w \in Workers : (v # w /\ wtask[v] # 0) => wtask[v] # wtask[w]
    /\ dpc = "returned" => \A t \in returned : runs[t] = 1

\* C4: a failure ends in the future of the task that raised it and nowhere
\* else: no exception leaves a worker (the process is not terminated), a
\* worker exits only through the exit test of its loop, a future holds a
\* failure only if its own callable throws and a value only if its own
\* callable returns, the future of a callable that has thrown holds the
\* failure, and once the destructor has returned every future holds the
\* outcome of its own callable.
C4_FailureIsolation ==
    /\ cpc = "done" => ~aborted
    /\ \A w \in Workers : wpc[w] = "done" => (stop /\ wtask[w] = 0)
    /\ \A t \in Tasks :
          /\ handle[t] = "failure" => kind[t] = "throw"
          /\ handle[t] = "value" => kind[t] = "ret"
          /\ (kind[t] = "throw" /\ runs[t] > 0 /\ \A w \in Workers : wtask[w] # t)
                => handle[t] = "failure"
    /\ (dpc = "returned" /\ \E t \in Tasks : handle[t] = "failure")
          => \A t \in Tasks : handle[t] = Outcome(kind[t])

\* The only worker has run a task that threw and then a task that returned.
C4_Witness ==
    /\ threads = 1
    /\ Len(handle) >= 2
    /\ handle[1] = "failure"
    /\ handle[2] = "value"

\* C5: with one worker, a task is popped and begins only when every task
\* put in the queue before it has been invoked once and has ended: the tasks
\* are popped, begin and end in the order in which they were put in.
C5_FifoOneWorker ==
    threads = 1 =>
        /\ popOrder = [i \in 1..Len(popOrder) |-> i]
        /\ \A t \in Tasks :
              t \in {popOrder[i] : i \in 1..Len(popOrder)} =>
                  \A u \in 1..(t - 1) : runs[u] = 1 /\ handle[u] # "pending"
        /\ \A t \in Tasks : runs[t] > 0 => t \in {popOrder[i] : i \in 1..Len(popOrder)}

\* Two tasks were in the queue together, and the only worker has run both.
C5_Witness ==
    /\ threads = 1
    /\ Len(handle) >= 2
    /\ handle[2] # "pending"
    /\ returned = {1, 2}
    /\ runs[1] = 1

\* C6: once the destructor has been entered it returns, every worker having
\* exited and been joined (all tasks terminate, every thread is scheduled).
C6_DestructionTerminates ==
    (dpc = "lock") ~>
        (dpc = "returned" /\ joined = threads
            /\ \A w \in 1..threads : wpc[w] = "done")

\* The destructor is joining with a task still in the queue and a worker
\* that notify_all has just woken.
C6_Witness ==
    /\ dpc = "join"
    /\ tasks # << >>
    /\ \E w \in Workers : wpc[w] = "woken"

\* C7: a future that has left "pending" never changes again.
C7_FulfilledOnce ==
    [][\A t \in Tasks : handle[t] # "pending" => handle'[t] = handle[t]]_vars

\* Two futures are ready, with different outcomes.
C7_Witness ==
    /\ Len(handle) >= 2
    /\ handle[1] = "value"
    /\ handle[2] = "failure"

\* C8: the constructor does not return a pool when it is given 0 workers.
C8_ZeroWorkersRejected ==
    threads = 0 => cpc # "done"

\* C9: when a spawn has failed, the failure has reached the caller (the
\* process was not terminated) and every worker spawned before it has exited.
C9_SpawnFailureTornDown ==
    cpc \in {"failed", "terminate"} =>
        /\ cpc = "failed"
        /\ ~aborted
        /\ \A w \in 1..spawned : wpc[w] = "done"

\* The step of the thread that holds the mutex.
HolderStep ==
    \/ \E w \in Workers : mutex = W(w) /\ WorkerStep(w)
    \/ \E s \in Submitters : mutex = S(s) /\ EnqueueStep(s)
    \/ mutex = D /\ DtorStep

\* C10: a call of enqueue in progress can always take its next step, unless
\* another thread holds the mutex, and then that thread can take its next
\* step: nobody holds the mutex while it runs a task or waits for one.
C10_SubmitNeverWaitsForTasks ==
    \A s \in Submitters :
        spc[s] # "idle" =>
            \/ ENABLED EnqueueStep(s)
            \/ mutex \notin {Free, S(s)} /\ ENABLED HolderStep

\* Every worker runs a task that never finishes, a task waits in the queue,
\* and the call that put it there has returned.
C10_Witness ==
    /\ threads >= 1
    /\ \A w \in 1..threads : wpc[w] = "running" /\ kind[wtask[w]] = "loop"
    /\ tasks # << >>
    /\ Head(tasks) \in returned

\* The call of enqueue that put task t in the queue has closed its critical
\* section (it is about to notify, about to return, or has returned).
Committed(t) ==
    \/ t \in returned
    \/ \E s \in Submitters : sid[s] = t /\ spc[s] \in {"notify", "return"}

\* C11 as claimed: a task's callable is invoked only after the call of
\* enqueue that created it has returned.
C11_ReturnPrecedesStart ==
    \A t \in Tasks : runs[t] > 0 => t \in returned

\* C11 as amended: a task is popped, and its callable invoked, only after
\* the call of enqueue that created it has put it in the queue and released
\* the mutex.
C11_CommitPrecedesStart ==
    /\ \A w \in Workers : wtask[w] # 0 => Committed(wtask[w])
    /\ \A t \in Tasks : runs[t] > 0 => Committed(t)

\* A task is running while the call of enqueue that created it has not yet
\* notified, let alone returned.
C11_Witness ==
    \E s \in Submitters : \E w \in Workers :
        /\ spc[s] = "notify"
        /\ sid[s] # 0
        /\ wtask[w] = sid[s]
        /\ wpc[w] = "running"

\* What get() can give.
Results == {"value", "failure", "broken"}

\* C12: get() returns only once the future has left "pending" and the
\* paired task has been invoked and has ended, and what it gives is the
\* outcome of that task's own callable.
C12_AwaitObservesCompletion ==
    \A t \in Tasks :
        got[t] \in Results =>
            /\ handle[t] # "pending"
            /\ runs[t] = 1
            /\ \A w \in Workers : wtask[w] # t
            /\ got[t] = Outcome(kind[t])

\* The step that raises the flag touches no task: not the queue, not what a
\* worker holds or where it stands, not a future.
RaiseKeeps ==
    (stop' /\ ~stop) =>
        /\ tasks' = tasks
        /\ wtask' = wtask
        /\ wpc' = wpc
        /\ handle' = handle
        /\ runs' = runs

\* With the flag raised, a worker lets go of the task it holds only by
\* ending it, its future fulfilled with its outcome.
HeldKept ==
    \A w \in Workers :
        (stop /\ wtask[w] # 0) =>
            \/ wtask'[w] = wtask[w]
            \/ /\ wtask'[w] = 0
               /\ runs[wtask[w]] = 1
               /\ handle'[wtask[w]] = Outcome(kind[wtask[w]])

\* With the flag raised, a task leaves the queue of a pool that has workers
\* only from the front and into the hands of a worker.
QueuedKept ==
    (stop /\ threads >= 1 /\ tasks' # tasks) =>
        /\ tasks # << >>
        /\ tasks' = Tail(tasks)
        /\ \E w \in Workers : wtask[w] = 0 /\ wtask'[w] = Head(tasks)

C14_NoCallableUnderMutex ==
    /\ \A w \in Workers :
          /\ wpc[w] \in {"call", "running"} => mutex # W(w)
          /\ mutex = W(w) => wpc[w] \in {"wait", "unlock"}
          /\ wpc[w] = "running" => (mutex = Free \/ ENABLED HolderStep)
    /\ \A s \in Submitters : mutex = S(s) => spc[s] \in {"check", "unlock"}
    /\ mutex = D => dpc \in {"set", "unlock"}

\* A task that never finishes is running while a call of enqueue is inside
\* its critical section.
C14_Witness ==
    \E w \in Workers : \E s \in Submitters :
        /\ wpc[w] = "running"
        /\ kind[wtask[w]] = "loop"
        /\ mutex = S(s)
        /\ spc[s] = "unlock"

\* Worker w leaves its loop in this step.
Exits(w) == wpc[w] # "done" /\ wpc'[w] = "done"

\* C15: a worker leaves its loop only in a step it takes holding the mutex,
\* with the flag raised and the queue empty, and holding no task; a worker
\* that has left stays out: it never holds the mutex, waits on the
\* condition or takes a task again.
C15_WorkerTermination ==
    [][\A w \in Workers :
          /\ Exits(w) =>
                /\ mutex = W(w)
                /\ stop
                /\ tasks = << >>
                /\ tasks' = << >>
                /\ wtask[w] = 0
          /\ wpc[w] = "done" =>
                /\ wpc'[w] = "done"
                /\ wtask'[w] = 0
                /\ mutex' # W(w)
                /\ w \notin waiters']_vars

\* One worker has left its loop while the other is still running a task.
C15_Witness ==
    /\ threads = 2
    /\ stop
    /\ \E v, w \in Workers : wpc[v] = "done" /\ wpc[w] = "running"

\* C16: tasks are numbered in the order in which the critical sections of
\* their calls of enqueue put them in the queue.  Whatever the number of
\* workers and submitters, the tasks are popped in that order, and the queue
\* holds the tasks that follow the popped ones, in that order: a task is
\* never popped while an earlier one is still in the queue.
C16_GlobalFifo ==
    /\ popOrder = [i \in 1..Len(popOrder) |-> i]
    /\ tasks = [i \in 1..Len(tasks) |-> Len(popOrder) + i]
    /\ \A w \in Workers : wtask[w] # 0 => wtask[w] <= Len(popOrder)

\* Two workers have popped the tasks of two submitters, the second worker
\* the first task.
C16_Witness ==
    /\ threads = 2
    /\ popOrder = <<1, 2>>
    /\ wtask[2] = 1
    /\ wtask[1] = 2
    /\ returned = {}

\* The threads that are inside a critical section of the queue mutex.
InCritical ==
    {W(w) : w \in {v \in Workers : wpc[v] \in {"wait", "unlock"}}}
        \cup {S(s) : s \in {r \in Submitters : spc[r] \in {"check", "unlock"}}}
        \cup (IF dpc \in {"set", "unlock"} THEN {D} ELSE {})

\* At most one thread is inside a critical section, and it is the holder of
\* the mutex.
MutexExclusive ==
    /\ Cardinality(InCritical) <= 1
    /\ InCritical = (IF mutex = Free THEN {} ELSE {mutex})

\* A step that appends to the queue or pops from it, or changes the flag, is
\* a step of the thread that holds the mutex, inside its critical section.
\* (The destruction of the queue with the pool is not such a step.)
GuardedMutation ==
    /\ (tasks' # tasks /\ dpc' # "returned") =>
          \/ \E s \in Submitters :
                /\ mutex = S(s) /\ mutex' = S(s) /\ spc[s] = "check"
                /\ tasks' = Append(tasks, sid'[s])
          \/ \E w \in Workers :
                /\ mutex = W(w) /\ mutex' = W(w) /\ wpc[w] = "wait"
                /\ tasks # << >> /\ tasks' = Tail(tasks) /\ wtask'[w] = Head(tasks)
    /\ stop' # stop =>
          /\ mutex = D /\ mutex' = D /\ dpc = "set"

\* C17: every append, every pop and the setting of the flag are steps of the
\* thread that holds the mutex, and at most one thread holds it.
C17_MutexGuardedMutation ==
    /\ []MutexExclusive
    /\ [][GuardedMutation]_vars

\* A call of enqueue has appended its task and still holds the mutex, for
\* which a worker and the destructor are waiting.
C17_Witness ==
    /\ \E s \in Submitters : mutex = S(s) /\ spc[s] = "unlock"
    /\ \E w \in Workers : wpc[w] = "lock"
    /\ dpc = "lock"

\* C18: the flag is clear while the pool is constructed and when the
\* constructor returns, and stays clear until the destructor is in its
\* critical section; once raised, no step clears it.
C18_MonotoneFlag ==
    /\ [](dpc \in {"idle", "lock", "set"} => ~stop)
    /\ [][(cpc = "spawn" /\ cpc' = "done") => ~stop']_vars
    /\ [][stop => stop']_vars

\* The flag was raised, a call of enqueue was rejected, the workers have
\* been joined and the destructor has returned: the flag is still raised.
C18_Witness ==
    /\ stop
    /\ dpc = "returned"
    /\ rejected > 0
    /\ joined >= 1

\* A call of enqueue has put its task in the queue and has not yet notified.
NotifyPending == \E s \in Submitters : sid[s] # 0 /\ spc[s] \in {"unlock", "notify"}

\* A task waits in the queue of a pool with workers and no notification is
\* still to come: then some worker is not blocked on the condition.
SomeoneAwake ==
    (threads >= 1 /\ tasks # << >> /\ ~NotifyPending) =>
        \E w \in 1..threads : wpc[w] \notin {"blocked", "done"}

\* C19: in a pool with at least one worker, a task is never left in the
\* queue with every worker blocked and no notification to come, and every
\* task put in the queue is eventually invoked, whether or not the pool is
\* ever destroyed (all tasks terminate, every thread is scheduled, no
\* spurious wake-up is relied on).
C19_NoLostWakeup ==
    /\ []SomeoneAwake
    /\ \A t \in 1..MaxCalls :
          (t \in Tasks /\ threads >= 1) ~> (t \in Tasks /\ runs[t] >= 1)

\* A task is in the queue, its call of enqueue has released the mutex and
\* not yet notified, every worker is blocked on the condition, and the
\* destructor has not been entered.
C19_Witness ==
    /\ threads >= 1
    /\ dpc = "idle"
    /\ waiters = 1..threads
    /\ \E s \in Submitters :
          /\ spc[s] = "notify"
          /\ \E i \in 1..Len(tasks) : tasks[i] = sid[s]

\* The tasks being executed: invoked and not yet ended.
Executing == {t \in Tasks : runs[t] >= 1 /\ handle[t] = "pending"}

\* The workers that exist are the first `spawned` ones, never more than the
\* constructor was asked for; each worker that is running holds one task,
\* which no other worker holds; so no more tasks are being executed than
\* there are workers.
Bounded ==
    /\ spawned <= threads
    /\ cpc = "done" => spawned = threads
    /\ \A w \in Workers : wpc[w] # "none" <=> w <= spawned
    /\ \A w \in Workers :
          wpc[w] = "running" =>
              /\ wtask[w] \in Executing
              /\ \A v \in Workers \ {w} : wtask[v] # wtask[w]
    /\ Executing = {wtask[w] : w \in {v \in Workers : wpc[v] = "running"}}
    /\ Cardinality(Executing) <= threads

\* C20: the number of tasks being executed never exceeds the worker count
\* given to the constructor, a worker executes one task at a time, and the
\* number of workers does not change once the constructor has returned.
C20_BoundedParallelism ==
    /\ []Bounded
    /\ [][threads' = threads /\ (cpc # "spawn" => spawned' = spawned)]_vars

\* Both workers of a pool of two are running a task, with nothing queued.
C20_Witness ==
    /\ threads = 2
    /\ wpc[1] = "running"
    /\ wpc[2] = "running"
    /\ Cardinality(Executing) = 2
    /\ tasks = << >>

====
